---- MODULE Spec2Model ----
(***************************************************************************)
(* Timer engine of pomo (src-tauri/src/timer.rs): the TimerInner state     *)
(* machine behind the AppState mutex, the Tauri timer commands and the     *)
(* background tick task, with the timer_intervals rows they write.         *)
(*                                                                         *)
(* Time is the monotonic clock in milliseconds.  Commands are issued one   *)
(* at a time (one command process); tick tasks run concurrently with it    *)
(* and with each other, one step per lock section or database call.        *)
(***************************************************************************)
EXTENDS Integers, Sequences, FiniteSets, Bags, TLC

VARIABLES
    timer,    \* the TimerInner behind AppState.timer
    lock,     \* who holds the AppState.timer mutex
    now,      \* Instant::now(), in milliseconds
    db,       \* the timer_intervals rows, by rowid
    tasks,    \* the live tick tasks: a bag of their local states
    cmd,      \* the command being executed and its locals
    events,   \* the timer-complete events emitted, in order
    session   \* history: the session begun by the latest successful start,
              \* and the last tick emitted

vars == <<timer, lock, now, db, tasks, cmd, events, session>>

(* ------------------------------ bounds -------------------------------- *)

\* Largest duration_seconds a start command is issued with.
MaxDurationSeconds == 1
\* Number of clock advances explored.
MaxClockSteps == 3
\* Number of timer_intervals rows that can be inserted.
MaxRecords == 2
\* Number of tick tasks that can be alive at once.
MaxTasks == 2

(* --------------------------- program constants ------------------------ *)

\* The period of the tick task's interval, in milliseconds.
TickPeriodMs == 250
\* One clock advance: two tick periods, so that a one-second interval has a
\* point strictly between its start and its deadline.
ClockStepMs == 2 * TickPeriodMs
MsPerSecond == 1000

\* Option::None for Option<Instant> and Option<i64>.
None == -1

IntervalTypes == {"Work", "ShortBreak", "LongBreak"}
RecordIds == 1..MaxRecords
\* Who holds the AppState.timer mutex: nobody, the command, or the one tick
\* task that is inside its overtime-entry lock section.
NoHolder == "free"
CmdHolder == "cmd"
TaskHolder == "task"

(* ------------------------------ TimerInner ---------------------------- *)

TimerNew ==
    [state |-> "Idle", interval_type |-> "Work", end_instant |-> None,
     remaining_ms |-> 0, planned_duration_seconds |-> 0, interval_id |-> None,
     completed_work_count |-> 0, overtime |-> FALSE,
     break_overtime_enabled |-> FALSE, overtime_start |-> None]

\* The remaining time read from the stored field, never from the deadline.
compute_remaining_ms_from_field(t, n) ==
    IF t.overtime THEN 0
    ELSE IF t.state = "Idle" THEN 0 ELSE t.remaining_ms

compute_remaining_ms(t, n) ==
    IF t.overtime THEN 0
    ELSE CASE t.state = "Running" ->
                IF t.end_instant = None THEN 0
                ELSE IF t.end_instant > n THEN t.end_instant - n ELSE 0
           [] t.state = "Paused" -> t.remaining_ms
           [] t.state = "Idle" -> 0

\* The overtime measured from the deadline field instead of overtime_start.
compute_overtime_ms_from_deadline(t, n) ==
    IF t.overtime
    THEN IF t.end_instant = None THEN 0 ELSE n - t.end_instant
    ELSE 0

compute_overtime_ms(t, n) ==
    IF t.overtime
    THEN IF t.overtime_start = None THEN 0 ELSE n - t.overtime_start
    ELSE 0

\* enter_overtime without the instant.
enter_overtime_without_start(t, n) ==
    [t EXCEPT !.overtime = TRUE]

enter_overtime(t, n) ==
    [t EXCEPT !.overtime = TRUE, !.overtime_start = n]

status(t, n) ==
    [state |-> t.state, interval_type |-> t.interval_type,
     remaining_ms |-> compute_remaining_ms(t, n),
     planned_duration_seconds |-> t.planned_duration_seconds,
     interval_id |-> t.interval_id,
     completed_work_count |-> t.completed_work_count,
     overtime |-> t.overtime, overtime_ms |-> compute_overtime_ms(t, n)]

\* Each transition returns [ok, timer, elapsed]: Err leaves the timer as it was.
start_unguarded(t, interval_type, duration_seconds, interval_id, n) ==
    [ok |-> TRUE, elapsed |-> 0,
     timer |-> [t EXCEPT !.state = "Running",
                         !.interval_type = interval_type,
                         !.planned_duration_seconds = duration_seconds,
                         !.interval_id = interval_id,
                         !.end_instant = n + duration_seconds * MsPerSecond,
                         !.remaining_ms = duration_seconds * MsPerSecond]]

\* start with the duration added to the clock without conversion to
\* milliseconds.
start_without_conversion(t, interval_type, duration_seconds, interval_id, n) ==
    IF t.state # "Idle"
    THEN [ok |-> FALSE, timer |-> t, elapsed |-> 0]
    ELSE [ok |-> TRUE, elapsed |-> 0,
          timer |-> [t EXCEPT !.state = "Running",
                              !.interval_type = interval_type,
                              !.planned_duration_seconds = duration_seconds,
                              !.interval_id = interval_id,
                              !.end_instant = n + duration_seconds,
                              !.remaining_ms = duration_seconds]]

start(t, interval_type, duration_seconds, interval_id, n) ==
    IF t.state # "Idle"
    THEN [ok |-> FALSE, timer |-> t, elapsed |-> 0]
    ELSE [ok |-> TRUE, elapsed |-> 0,
          timer |-> [t EXCEPT !.state = "Running",
                              !.interval_type = interval_type,
                              !.planned_duration_seconds = duration_seconds,
                              !.interval_id = interval_id,
                              !.end_instant = n + duration_seconds * MsPerSecond,
                              !.remaining_ms = duration_seconds * MsPerSecond]]

\* pause without the snapshot of the remaining time.
pause_without_snapshot(t, n) ==
    IF t.state # "Running"
    THEN [ok |-> FALSE, timer |-> t, elapsed |-> 0]
    ELSE [ok |-> TRUE, elapsed |-> 0,
          timer |-> [t EXCEPT !.state = "Paused", !.end_instant = None]]

pause(t, n) ==
    IF t.state # "Running"
    THEN [ok |-> FALSE, timer |-> t, elapsed |-> 0]
    ELSE [ok |-> TRUE, elapsed |-> 0,
          timer |-> [t EXCEPT !.remaining_ms = compute_remaining_ms(t, n),
                              !.state = "Paused",
                              !.end_instant = None]]

resume(t, n) ==
    IF t.state # "Paused"
    THEN [ok |-> FALSE, timer |-> t, elapsed |-> 0]
    ELSE [ok |-> TRUE, elapsed |-> 0,
          timer |-> [t EXCEPT !.state = "Running",
                              !.end_instant = n + t.remaining_ms]]

saturating_sub(a, b) == IF a > b THEN a - b ELSE 0

\* cancel without its overtime branch.
cancel_without_overtime_branch(t, n) ==
    IF t.state = "Idle"
    THEN [ok |-> FALSE, timer |-> t, elapsed |-> 0]
    ELSE LET remaining_ms == compute_remaining_ms(t, n)
             planned_ms == t.planned_duration_seconds * MsPerSecond
             elapsed_ms == saturating_sub(planned_ms, remaining_ms)
         IN [ok |-> TRUE,
             elapsed |-> elapsed_ms \div MsPerSecond,
             timer |-> [t EXCEPT !.state = "Idle", !.end_instant = None,
                                 !.remaining_ms = 0, !.overtime = FALSE,
                                 !.overtime_start = None]]

cancel(t, n) ==
    IF t.state = "Idle"
    THEN [ok |-> FALSE, timer |-> t, elapsed |-> 0]
    ELSE IF t.overtime
    THEN [ok |-> TRUE, elapsed |-> 0,
          timer |-> [t EXCEPT !.state = "Idle", !.end_instant = None,
                              !.remaining_ms = 0, !.overtime = FALSE,
                              !.overtime_start = None, !.interval_id = None]]
    ELSE LET remaining_ms == compute_remaining_ms(t, n)
             planned_ms == t.planned_duration_seconds * MsPerSecond
             elapsed_ms == saturating_sub(planned_ms, remaining_ms)
             elapsed_seconds == elapsed_ms \div MsPerSecond
         \* u32::try_from never fails here: elapsed_seconds is at most the
         \* planned u32 seconds.
         IN [ok |-> TRUE,
             elapsed |-> elapsed_seconds,
             timer |-> [t EXCEPT !.state = "Idle", !.end_instant = None,
                                 !.remaining_ms = 0, !.overtime = FALSE,
                                 !.overtime_start = None]]

\* The work count updated on every kind of interval.
work_count_after_any(t) ==
    IF t.interval_type = "LongBreak" THEN 0 ELSE t.completed_work_count + 1

work_count_after(t) ==
    CASE t.interval_type = "Work" -> t.completed_work_count + 1
      [] t.interval_type = "LongBreak" -> 0
      [] t.interval_type = "ShortBreak" -> t.completed_work_count

complete(t) ==
    [t EXCEPT !.completed_work_count = work_count_after(t),
              !.state = "Idle", !.end_instant = None, !.remaining_ms = 0,
              !.interval_id = None, !.overtime = FALSE,
              !.overtime_start = None]

(* --------------------------- timer_intervals -------------------------- *)

NoRow == [status |-> "none", interval_type |-> "Work",
          planned_duration_seconds |-> 0, duration_seconds |-> None,
          writes |-> <<>>]

\* Rows inserted so far; rowids are handed out in order.
Inserted == {i \in RecordIds : db[i].status # "none"}
NextRowId == Cardinality(Inserted) + 1

db_insert_interval(d, interval_type, planned) ==
    [d EXCEPT ![NextRowId] = [status |-> "in_progress",
                              interval_type |-> interval_type,
                              planned_duration_seconds |-> planned,
                              duration_seconds |-> None,
                              writes |-> <<>>]]

\* UPDATE ... WHERE id = ?: a row that does not exist (id 0) matches nothing.
db_update(d, id, outcome, duration_seconds) ==
    IF id \in RecordIds /\ d[id].status # "none"
    THEN [d EXCEPT ![id].status = outcome,
                   ![id].duration_seconds = duration_seconds,
                   ![id].writes = Append(@, outcome)]
    ELSE d

db_complete_interval(d, id, duration_seconds) ==
    db_update(d, id, "completed", duration_seconds)

db_cancel_interval(d, id, duration_seconds) ==
    db_update(d, id, "cancelled", duration_seconds)

unwrap_or_0(x) == IF x = None THEN 0 ELSE x

(* ------------------------------ processes ----------------------------- *)

\* The command process: idle, or inside a handler (pc names its next step).
\* A handler that returns, with Ok or Err, leaves the process idle again.
CmdIdle == [pc |-> "idle", interval_type |-> "Work", duration_seconds |-> 0,
            break_overtime_enabled |-> FALSE, interval_id |-> 0,
            elapsed_seconds |-> 0, was_overtime |-> FALSE]

\* A tick task at the top of its loop, holding no data of the session.
FreshTask == [pc |-> "sample", end |-> None, interval_type |-> "Work",
              interval_id |-> 0, planned |-> 0,
              break_overtime_enabled |-> FALSE, completed_work_count |-> 0]

Alive == BagToSet(tasks)
NumAlive == BagCardinality(tasks)

\* tauri::async_runtime::spawn of a new tick loop.
spawn_tick_task(ts) == ts (+) SetToBag({FreshTask})

\* A task moves from local state r to r2, or returns.
task_step(ts, r, r2) == (ts (-) SetToBag({r})) (+) SetToBag({r2})
task_return(ts, r) == ts (-) SetToBag({r})

NoSession == [id |-> 0, interval_type |-> "Work", completed |-> FALSE,
              work_done |-> 0, last_tick |-> None]

\* History of a pause, resume, cancel or completion: the ticks emitted from
\* here on are compared among themselves only.
session_boundary(s) == [s EXCEPT !.last_tick = None]

\* History of a timer-tick event outside overtime: its remaining_ms.
session_ticked(s, remaining_ms) == [s EXCEPT !.last_tick = remaining_ms]

\* History of a successful start: the new session, not yet completed.
session_started(s, id, interval_type) ==
    [s EXCEPT !.id = id, !.interval_type = interval_type, !.completed = FALSE,
              !.last_tick = None]

\* History of a completion: a session counts once, by the kind it was started
\* with; work_done is the number of Work sessions completed since the last
\* LongBreak session that completed.
session_completed(s) ==
    IF s.completed THEN session_boundary(s)
    ELSE [s EXCEPT !.last_tick = None,
                   !.completed = TRUE,
                   !.work_done = CASE s.interval_type = "Work" -> @ + 1
                                   [] s.interval_type = "LongBreak" -> 0
                                   [] s.interval_type = "ShortBreak" -> @]

Init ==
    /\ timer = TimerNew
    /\ lock = NoHolder
    /\ now = 0
    /\ db = [i \in RecordIds |-> NoRow]
    /\ tasks = EmptyBag
    /\ cmd = CmdIdle
    /\ events = <<>>
    /\ session = NoSession

(* ------------------------------ commands ------------------------------ *)

\* start_timer without its duration check.
StartCmd_without_check(interval_type, duration_seconds) ==
    /\ cmd.pc = "idle"
    /\ NextRowId <= MaxRecords
    /\ cmd' = [CmdIdle EXCEPT !.pc = "start_read",
                              !.interval_type = interval_type,
                              !.duration_seconds = duration_seconds]
    /\ UNCHANGED <<timer, lock, now, db, tasks, events, session>>

\* start_timer is invoked: the duration check, before anything is read or
\* written.  A zero duration leaves the handler at its early return.
StartCmd(interval_type, duration_seconds) ==
    /\ cmd.pc = "idle"
    /\ NextRowId <= MaxRecords
    /\ cmd' = IF duration_seconds = 0
              THEN [CmdIdle EXCEPT !.pc = "start_zero"]
              ELSE [CmdIdle EXCEPT !.pc = "start_read",
                                   !.interval_type = interval_type,
                                   !.duration_seconds = duration_seconds]
    /\ UNCHANGED <<timer, lock, now, db, tasks, events, session>>

\* start_timer: return Err("Duration must be greater than 0").
StartReject ==
    /\ cmd.pc = "start_zero"
    /\ cmd' = CmdIdle
    /\ UNCHANGED <<timer, lock, now, db, tasks, events, session>>

\* start_timer: open_db and the user_settings query.  stored is the value the
\* user_settings row holds at this moment; a failed query reads as "false", a
\* failed open returns the error.
StartReadSetting(opened, queried, stored) ==
    /\ cmd.pc = "start_read"
    /\ cmd' = IF opened
              THEN [cmd EXCEPT !.pc = "start_insert",
                               !.break_overtime_enabled = queried /\ stored]
              ELSE CmdIdle
    /\ UNCHANGED <<timer, lock, now, db, tasks, events, session>>

\* start_timer going on without a row id when db_insert_interval fails.
StartInsert_unwrapped(inserted) ==
    /\ cmd.pc = "start_insert"
    /\ db' = IF inserted
             THEN db_insert_interval(db, cmd.interval_type, cmd.duration_seconds)
             ELSE db
    /\ cmd' = [cmd EXCEPT !.pc = "start_lock",
                          !.interval_id = IF inserted THEN NextRowId ELSE 0]
    /\ UNCHANGED <<timer, lock, now, tasks, events, session>>

\* start_timer: db_insert_interval, before the lock is taken.
StartInsert(inserted) ==
    /\ cmd.pc = "start_insert"
    /\ IF inserted
       THEN /\ db' = db_insert_interval(db, cmd.interval_type, cmd.duration_seconds)
            /\ cmd' = [cmd EXCEPT !.pc = "start_lock", !.interval_id = NextRowId]
       ELSE /\ db' = db
            /\ cmd' = CmdIdle
    /\ UNCHANGED <<timer, lock, now, tasks, events, session>>

\* start_timer: what its lock section does to the timer, and its Result.
start_timer_section(t, c, n) ==
    start([t EXCEPT !.break_overtime_enabled = c.break_overtime_enabled],
          c.interval_type, c.duration_seconds, c.interval_id, n)

\* start_timer: the lock section (snapshot of the setting, TimerInner::start).
StartLock ==
    /\ cmd.pc = "start_lock"
    /\ lock = NoHolder
    /\ LET r == start_timer_section(timer, cmd, now)
       IN /\ timer' = r.timer
          /\ cmd' = IF r.ok THEN [cmd EXCEPT !.pc = "start_spawn"] ELSE CmdIdle
          /\ session' = IF r.ok
                        THEN session_started(session, cmd.interval_id, cmd.interval_type)
                        ELSE session
    /\ UNCHANGED <<lock, now, db, tasks, events>>

\* start_timer: spawn_tick_task after the lock is released.
StartSpawn ==
    /\ cmd.pc = "start_spawn"
    /\ NumAlive < MaxTasks
    /\ tasks' = spawn_tick_task(tasks)
    /\ cmd' = CmdIdle
    /\ UNCHANGED <<timer, lock, now, db, events, session>>

\* pause_timer: one lock section.
PauseCmd ==
    /\ cmd.pc = "idle"
    /\ lock = NoHolder
    /\ timer' = pause(timer, now).timer
    /\ session' = IF pause(timer, now).ok THEN session_boundary(session)
                  ELSE session
    /\ UNCHANGED <<lock, now, db, tasks, cmd, events>>

\* resume_timer: the lock section.
ResumeCmd ==
    /\ cmd.pc = "idle"
    /\ lock = NoHolder
    /\ LET r == resume(timer, now)
       IN /\ timer' = r.timer
          /\ cmd' = IF r.ok
                    THEN [CmdIdle EXCEPT !.pc = "resume_spawn"]
                    ELSE CmdIdle
          /\ session' = IF r.ok THEN session_boundary(session) ELSE session
    /\ UNCHANGED <<lock, now, db, tasks, events>>

\* resume_timer: spawn_tick_task after the lock is released.
ResumeSpawn ==
    /\ cmd.pc = "resume_spawn"
    /\ NumAlive < MaxTasks
    /\ tasks' = spawn_tick_task(tasks)
    /\ cmd' = CmdIdle
    /\ UNCHANGED <<timer, lock, now, db, events, session>>

\* cancel_timer: lock, read interval_id and overtime, TimerInner::cancel.
CancelCmd ==
    /\ cmd.pc = "idle"
    /\ lock = NoHolder
    /\ LET r == cancel(timer, now)
       IN /\ timer' = r.timer
          /\ lock' = IF r.ok THEN CmdHolder ELSE NoHolder
          /\ cmd' = IF r.ok
                    THEN [CmdIdle EXCEPT !.pc = "cancel_clear",
                                         !.interval_id = unwrap_or_0(timer.interval_id),
                                         !.was_overtime = timer.overtime,
                                         !.elapsed_seconds = r.elapsed]
                    ELSE CmdIdle
          /\ session' = IF r.ok THEN session_boundary(session) ELSE session
    /\ UNCHANGED <<now, db, tasks, events>>

\* cancel_timer with the lock kept until db_cancel_interval.
CancelClear_holding_lock ==
    /\ cmd.pc = "cancel_clear"
    /\ lock = CmdHolder
    /\ timer' = IF cmd.was_overtime THEN timer
                ELSE [timer EXCEPT !.interval_id = None]
    /\ lock' = IF cmd.was_overtime THEN NoHolder ELSE CmdHolder
    /\ cmd' = IF cmd.was_overtime THEN CmdIdle
              ELSE [cmd EXCEPT !.pc = "cancel_db"]
    /\ UNCHANGED <<now, db, tasks, events, session>>

\* cancel_timer without the assignment that clears interval_id.
CancelClear_keeping_id ==
    /\ cmd.pc = "cancel_clear"
    /\ lock = CmdHolder
    /\ timer' = timer
    /\ lock' = NoHolder
    /\ cmd' = IF cmd.was_overtime THEN CmdIdle
              ELSE [cmd EXCEPT !.pc = "cancel_db"]
    /\ UNCHANGED <<now, db, tasks, events, session>>

\* cancel_timer: clear interval_id, take the status, release the lock; in
\* overtime nothing is written and the handler returns.
CancelClear ==
    /\ cmd.pc = "cancel_clear"
    /\ lock = CmdHolder
    /\ timer' = IF cmd.was_overtime THEN timer
                ELSE [timer EXCEPT !.interval_id = None]
    /\ lock' = NoHolder
    /\ cmd' = IF cmd.was_overtime THEN CmdIdle
              ELSE [cmd EXCEPT !.pc = "cancel_db"]
    /\ UNCHANGED <<now, db, tasks, events, session>>

\* cancel_timer putting interval_id back when db_cancel_interval fails.
CancelDb_restoring(written) ==
    /\ cmd.pc = "cancel_db"
    /\ db' = IF written
             THEN db_cancel_interval(db, cmd.interval_id, cmd.elapsed_seconds)
             ELSE db
    /\ timer' = IF written THEN timer
                ELSE [timer EXCEPT !.interval_id = cmd.interval_id]
    /\ cmd' = CmdIdle
    /\ UNCHANGED <<lock, now, tasks, events, session>>

\* cancel_timer: db_cancel_interval outside the lock; its error is returned.
CancelDb(written) ==
    /\ cmd.pc = "cancel_db"
    /\ db' = IF written
             THEN db_cancel_interval(db, cmd.interval_id, cmd.elapsed_seconds)
             ELSE db
    /\ cmd' = CmdIdle
    /\ UNCHANGED <<timer, lock, now, tasks, events, session>>

\* get_timer_state: a read under the lock.
StatusCmd ==
    /\ cmd.pc = "idle"
    /\ lock = NoHolder
    /\ UNCHANGED vars

(* ------------------------------ tick task ----------------------------- *)

CompleteEvent(interval_id, interval_type, completed_work_count, overtime) ==
    [interval_id |-> interval_id, interval_type |-> interval_type,
     completed_work_count |-> completed_work_count, overtime |-> overtime]

TimerTickPayload(remaining_ms, interval_type, overtime_ms) ==
    [remaining_ms |-> remaining_ms, interval_type |-> interval_type,
     overtime_ms |-> overtime_ms]

\* The timer-tick event of the first lock section when overtime is set.
overtime_tick(t, n) ==
    TimerTickPayload(0, t.interval_type, compute_overtime_ms(t, n))

is_break(interval_type) == interval_type \in {"ShortBreak", "LongBreak"}

\* What the first lock section copies out of the timer.
tick_data(t) ==
    [FreshTask EXCEPT !.pc = "check",
                      !.end = t.end_instant,
                      !.interval_type = t.interval_type,
                      !.interval_id = unwrap_or_0(t.interval_id),
                      !.planned = t.planned_duration_seconds,
                      !.break_overtime_enabled = t.break_overtime_enabled]

\* The first lock section without its return: a task that finds the timer not
\* Running waits for the next tick.
TickSample_without_return(r) ==
    /\ r.pc = "sample"
    /\ lock = NoHolder
    /\ tasks' = IF timer.state # "Running" THEN tasks
                ELSE IF timer.overtime THEN tasks
                ELSE IF timer.end_instant = None THEN task_return(tasks, r)
                ELSE task_step(tasks, r, tick_data(timer))
    /\ UNCHANGED <<timer, lock, now, db, cmd, events, session>>

\* ticker.tick() and the first lock section: return when not Running, emit the
\* overtime tick, or copy the deadline and the session data out of the lock.
TickSample(r) ==
    /\ r.pc = "sample"
    /\ lock = NoHolder
    /\ tasks' = IF timer.state # "Running" THEN task_return(tasks, r)
                ELSE IF timer.overtime THEN tasks
                ELSE IF timer.end_instant = None THEN task_return(tasks, r)
                ELSE task_step(tasks, r, tick_data(timer))
    /\ UNCHANGED <<timer, lock, now, db, cmd, events, session>>

\* Instant::now() after the lock is released, compared with the copied
\* deadline: a crossing goes on to a second lock section, otherwise the
\* timer-tick event is emitted and the loop starts over.
TickCheck(r) ==
    /\ r.pc = "check"
    /\ tasks' = IF now >= r.end
                THEN IF is_break(r.interval_type) /\ r.break_overtime_enabled
                     THEN task_step(tasks, r, [r EXCEPT !.pc = "ot_lock"])
                     ELSE task_step(tasks, r, [r EXCEPT !.pc = "norm_lock"])
                ELSE task_step(tasks, r, FreshTask)
    /\ session' = IF now >= r.end THEN session
                  ELSE session_ticked(session, r.end - now)
    /\ UNCHANGED <<timer, lock, now, db, cmd, events>>

\* Overtime entry with the lock released between complete() and the re-entry.
TickOtLock_releasing(r) ==
    /\ r.pc = "ot_lock"
    /\ lock = NoHolder
    /\ IF timer.state # "Running"
       THEN /\ tasks' = task_return(tasks, r)
            /\ UNCHANGED <<timer, session>>
       ELSE /\ timer' = complete(timer)
            /\ tasks' = task_step(tasks, r,
                            [r EXCEPT !.pc = "ot_reenter",
                                      !.completed_work_count =
                                          complete(timer).completed_work_count])
            /\ session' = session_completed(session)
    /\ UNCHANGED <<lock, now, db, cmd, events>>

\* Overtime entry, second lock section: the guard and TimerInner::complete.
TickOtLock(r) ==
    /\ r.pc = "ot_lock"
    /\ lock = NoHolder
    /\ IF timer.state # "Running"
       THEN /\ tasks' = task_return(tasks, r)
            /\ UNCHANGED <<timer, lock, session>>
       ELSE /\ timer' = complete(timer)
            /\ lock' = TaskHolder
            /\ tasks' = task_step(tasks, r,
                            [r EXCEPT !.pc = "ot_reenter",
                                      !.completed_work_count =
                                          complete(timer).completed_work_count])
            /\ session' = session_completed(session)
    /\ UNCHANGED <<now, db, cmd, events>>

\* Overtime entry, same lock section: back to Running, enter_overtime.
TickOtReenter(r) ==
    /\ r.pc = "ot_reenter"
    /\ lock = TaskHolder
    /\ timer' = enter_overtime([timer EXCEPT !.state = "Running",
                                            !.interval_type = r.interval_type],
                               now)
    /\ lock' = NoHolder
    /\ tasks' = task_step(tasks, r, [r EXCEPT !.pc = "ot_db"])
    /\ UNCHANGED <<now, db, cmd, events, session>>

\* Overtime entry: db_complete_interval (its error dropped) and timer-complete;
\* the loop continues.
TickOtDb(r, written) ==
    /\ r.pc = "ot_db"
    /\ db' = IF written
             THEN db_complete_interval(db, r.interval_id, r.planned)
             ELSE db
    /\ events' = Append(events,
                        CompleteEvent(r.interval_id, r.interval_type,
                                      r.completed_work_count, TRUE))
    /\ tasks' = task_step(tasks, r, FreshTask)
    /\ UNCHANGED <<timer, lock, now, cmd, session>>

\* The normal completion without its guard.
TickNormLock_unguarded(r) ==
    /\ r.pc = "norm_lock"
    /\ lock = NoHolder
    /\ timer' = complete(timer)
    /\ tasks' = task_step(tasks, r,
                    [r EXCEPT !.pc = "norm_db",
                              !.completed_work_count =
                                  complete(timer).completed_work_count])
    /\ session' = session_completed(session)
    /\ UNCHANGED <<lock, now, db, cmd, events>>

\* Normal completion, second lock section: the guard and TimerInner::complete.
TickNormLock(r) ==
    /\ r.pc = "norm_lock"
    /\ lock = NoHolder
    /\ IF timer.state # "Running"
       THEN /\ tasks' = task_return(tasks, r)
            /\ UNCHANGED <<timer, session>>
       ELSE /\ timer' = complete(timer)
            /\ tasks' = task_step(tasks, r,
                            [r EXCEPT !.pc = "norm_db",
                                      !.completed_work_count =
                                          complete(timer).completed_work_count])
            /\ session' = session_completed(session)
    /\ UNCHANGED <<lock, now, db, cmd, events>>

\* The normal completion with the error of db_complete_interval propagated:
\* the task returns at a failed write.
TickNormDb_propagating(r, written) ==
    /\ r.pc = "norm_db"
    /\ db' = IF written
             THEN db_complete_interval(db, r.interval_id, r.planned)
             ELSE db
    /\ events' = IF written
                 THEN Append(events,
                             CompleteEvent(r.interval_id, r.interval_type,
                                           r.completed_work_count, FALSE))
                 ELSE events
    /\ tasks' = task_return(tasks, r)
    /\ UNCHANGED <<timer, lock, now, cmd, session>>

\* Normal completion: db_complete_interval (its error dropped), timer-complete,
\* and the task returns.
TickNormDb(r, written) ==
    /\ r.pc = "norm_db"
    /\ db' = IF written
             THEN db_complete_interval(db, r.interval_id, r.planned)
             ELSE db
    /\ events' = Append(events,
                        CompleteEvent(r.interval_id, r.interval_type,
                                      r.completed_work_count, FALSE))
    /\ tasks' = task_return(tasks, r)
    /\ UNCHANGED <<timer, lock, now, cmd, session>>

(* ----------------------------- environment ---------------------------- *)

\* The monotonic clock moves on.
AdvanceClock ==
    /\ now < MaxClockSteps * ClockStepMs
    /\ now' = now + ClockStepMs
    /\ UNCHANGED <<timer, lock, db, tasks, cmd, events, session>>

Next ==
    \/ \E k \in IntervalTypes, d \in 0..MaxDurationSeconds : StartCmd(k, d)
    \/ StartReject
    \/ \E opened \in BOOLEAN, queried \in BOOLEAN, stored \in BOOLEAN :
          StartReadSetting(opened, queried, stored)
    \/ \E inserted \in BOOLEAN : StartInsert(inserted)
    \/ StartLock
    \/ StartSpawn
    \/ PauseCmd
    \/ ResumeCmd
    \/ ResumeSpawn
    \/ CancelCmd
    \/ CancelClear
    \/ \E written \in BOOLEAN : CancelDb(written)
    \/ StatusCmd
    \/ \E r \in Alive : TickSample(r)
    \/ \E r \in Alive : TickCheck(r)
    \/ \E r \in Alive : TickOtLock(r)
    \/ \E r \in Alive : TickOtReenter(r)
    \/ \E r \in Alive, written \in BOOLEAN : TickOtDb(r, written)
    \/ \E r \in Alive : TickNormLock(r)
    \/ \E r \in Alive, written \in BOOLEAN : TickNormDb(r, written)
    \/ AdvanceClock

Spec == Init /\ [][Next]_vars

\* The program with every write of db_cancel_interval and
\* db_complete_interval succeeding.
NextWritesSucceed ==
    \/ \E k \in IntervalTypes, d \in 0..MaxDurationSeconds : StartCmd(k, d)
    \/ StartReject
    \/ \E opened \in BOOLEAN, queried \in BOOLEAN, stored \in BOOLEAN :
          StartReadSetting(opened, queried, stored)
    \/ \E inserted \in BOOLEAN : StartInsert(inserted)
    \/ StartLock
    \/ StartSpawn
    \/ PauseCmd
    \/ ResumeCmd
    \/ ResumeSpawn
    \/ CancelCmd
    \/ CancelClear
    \/ CancelDb(TRUE)
    \/ StatusCmd
    \/ \E r \in Alive : TickSample(r)
    \/ \E r \in Alive : TickCheck(r)
    \/ \E r \in Alive : TickOtLock(r)
    \/ \E r \in Alive : TickOtReenter(r)
    \/ \E r \in Alive : TickOtDb(r, TRUE)
    \/ \E r \in Alive : TickNormLock(r)
    \/ \E r \in Alive : TickNormDb(r, TRUE)
    \/ AdvanceClock

WritesSucceedSpec == Init /\ [][NextWritesSucceed]_vars

\* The steps by which a handler that was invoked runs on to its return.
HandlerStep ==
    \/ StartReject
    \/ \E opened \in BOOLEAN, queried \in BOOLEAN, stored \in BOOLEAN :
          StartReadSetting(opened, queried, stored)
    \/ \E inserted \in BOOLEAN : StartInsert(inserted)
    \/ StartLock
    \/ StartSpawn
    \/ ResumeSpawn
    \/ CancelClear
    \/ \E written \in BOOLEAN : CancelDb(written)

\* The steps of the tick tasks.
TickStep ==
    \E r \in Alive :
        \/ TickSample(r)
        \/ TickCheck(r)
        \/ TickOtLock(r)
        \/ TickOtReenter(r)
        \/ \E written \in BOOLEAN : TickOtDb(r, written)
        \/ TickNormLock(r)
        \/ \E written \in BOOLEAN : TickNormDb(r, written)

\* A handler that was invoked runs to its return, the spawned tick tasks are
\* polled at the ticks of their intervals, and the monotonic clock moves on.
\* Which commands are invoked, and when, is left open.
Fairness ==
    /\ WF_vars(HandlerStep)
    /\ WF_vars(TickStep)
    /\ WF_vars(AdvanceClock)

FairSpec == Spec /\ Fairness

(* ------------------------------- claims ------------------------------- *)

\* The task in local state r takes this step.
TaskMoved(r) == CopiesIn(r, tasks') < CopiesIn(r, tasks)

\* A tick task passes the guard of its second lock section and calls complete().
CompletionStep ==
    \E r \in Alive : /\ r.pc \in {"norm_lock", "ot_lock"}
                     /\ TaskMoved(r)
                     /\ timer.state = "Running"

\* A tick task finds the guard of its second lock section failing.
GuardFailStep ==
    \E r \in Alive : /\ r.pc \in {"norm_lock", "ot_lock"}
                     /\ TaskMoved(r)
                     /\ timer.state # "Running"

StartArgs == [interval_type : IntervalTypes, duration_seconds : 1..MaxDurationSeconds,
              interval_id : RecordIds]

\* C1: in every reachable state start succeeds exactly from Idle and yields
\* Running, pause exactly from Running and yields Paused, resume exactly from
\* Paused and yields Running, cancel exactly from a non-Idle state and yields
\* Idle; complete() yields Idle; and from the state a cancel or a completion
\* leaves, a start succeeds.
C1_Transitions ==
    /\ \A a \in StartArgs :
          LET r == start(timer, a.interval_type, a.duration_seconds, a.interval_id, now)
          IN /\ r.ok <=> timer.state = "Idle"
             /\ r.ok => r.timer.state = "Running"
    /\ pause(timer, now).ok <=> timer.state = "Running"
    /\ pause(timer, now).ok => pause(timer, now).timer.state = "Paused"
    /\ resume(timer, now).ok <=> timer.state = "Paused"
    /\ resume(timer, now).ok => resume(timer, now).timer.state = "Running"
    /\ cancel(timer, now).ok <=> timer.state # "Idle"
    /\ cancel(timer, now).ok => cancel(timer, now).timer.state = "Idle"
    /\ complete(timer).state = "Idle"
    /\ \A a \in StartArgs :
          /\ cancel(timer, now).ok =>
                start(cancel(timer, now).timer, a.interval_type,
                      a.duration_seconds, a.interval_id, now).ok
          /\ start(complete(timer), a.interval_type,
                   a.duration_seconds, a.interval_id, now).ok

\* C1 witness: a start has succeeded again after the first session was
\* cancelled, with a pause and a resume behind it.
C1_Witness ==
    /\ cmd.pc = "start_spawn"
    /\ cmd.interval_id = 2
    /\ timer.state = "Running"
    /\ db[1].status = "cancelled"

\* C2: a command that is rejected for its state (start while Running or Paused,
\* pause while Idle or Paused, resume while Idle or Running, cancel while Idle)
\* leaves every field of the timer as it was.
C2_RejectedKeepsState ==
    /\ (cmd.pc = "start_lock" /\ timer.state # "Idle") =>
           /\ ~start_timer_section(timer, cmd, now).ok
           /\ start_timer_section(timer, cmd, now).timer = timer
    /\ timer.state # "Running" =>
           ~pause(timer, now).ok /\ pause(timer, now).timer = timer
    /\ timer.state # "Paused" =>
           ~resume(timer, now).ok /\ resume(timer, now).timer = timer
    /\ timer.state = "Idle" =>
           ~cancel(timer, now).ok /\ cancel(timer, now).timer = timer

\* C3: the deadline is present exactly when the timer is Running and not in
\* overtime.
C3_DeadlineIffRunning ==
    (timer.end_instant # None) <=> (timer.state = "Running" /\ ~timer.overtime)

\* C4: every interval row receives at most one finalization write.
C4_FinalizedOnce ==
    \A i \in RecordIds : Len(db[i].writes) <= 1

\* C5: completed_work_count changes only in a completion step: by plus one
\* when the interval is Work, to zero when it is LongBreak, and not at all
\* when it is ShortBreak; no other step changes it.
C5_WorkCountFrame ==
    [][/\ (timer'.completed_work_count # timer.completed_work_count
              => CompletionStep)
       /\ (CompletionStep => timer'.completed_work_count =
              CASE timer.interval_type = "Work" -> timer.completed_work_count + 1
                [] timer.interval_type = "LongBreak" -> 0
                [] timer.interval_type = "ShortBreak" -> timer.completed_work_count)
      ]_vars

\* C5 witness: a Work completion has raised the count to one.
C5_Witness ==
    /\ timer.completed_work_count = 1
    /\ \E r \in Alive : /\ r.pc = "norm_db"
                        /\ r.interval_type = "Work"
                        /\ r.completed_work_count = 1

\* C6: completed_work_count is the number of Work sessions completed since the
\* last LongBreak session that completed.
C6_WorkCountIsHistory ==
    timer.completed_work_count = session.work_done

\* C7: a tick task completes the session only when the session's own current
\* deadline has been reached.
C7_CompleteOnlyOnOwnDeadline ==
    [][CompletionStep =>
          (timer.end_instant # None /\ now >= timer.end_instant)]_vars

\* C8: when the guard of the second lock section fails, the task returns and
\* the timer, the interval rows and the emitted events are as they were.
C8_GuardFailureChangesNothing ==
    [][GuardFailStep =>
          /\ timer' = timer
          /\ db' = db
          /\ events' = events
          /\ lock' = lock
          /\ BagCardinality(tasks') = BagCardinality(tasks) - 1
          /\ \A r \in BagToSet(tasks') : CopiesIn(r, tasks') <= CopiesIn(r, tasks)
      ]_vars

\* C8 witness: a tick task that saw the deadline crossed is at its guard, the
\* lock is free, and the timer is no longer Running.
C8_Witness ==
    /\ \E r \in Alive : r.pc \in {"norm_lock", "ot_lock"}
    /\ lock = NoHolder
    /\ timer.state # "Running"

\* C9: a cancel in overtime returns zero elapsed seconds, leaves the timer Idle
\* with overtime false, overtime_start and interval_id absent and the work
\* count as it was, and the handler then returns without writing to the rows.
C9_CancelInOvertime ==
    [][/\ (cmd.pc = "idle" /\ cmd'.pc = "cancel_clear" /\ timer.overtime) =>
              /\ cmd'.elapsed_seconds = 0
              /\ cmd'.was_overtime
              /\ timer'.state = "Idle"
              /\ ~timer'.overtime
              /\ timer'.overtime_start = None
              /\ timer'.interval_id = None
              /\ timer'.completed_work_count = timer.completed_work_count
              /\ db' = db
       /\ (cmd.pc = "cancel_clear" /\ cmd.was_overtime /\ cmd'.pc # "cancel_clear") =>
              /\ cmd'.pc = "idle"
              /\ timer' = timer
              /\ db' = db
       /\ (cmd'.pc = "cancel_db" => ~cmd'.was_overtime)
      ]_vars

\* C9 witness: the cancel handler has cancelled a session in overtime.
C9_Witness == cmd.pc = "cancel_clear" /\ cmd.was_overtime

\* C10: whenever overtime is true, the row of the session is finalized as
\* completed.
C10_OvertimeImpliesCompletedRow ==
    timer.overtime =>
        (session.id \in RecordIds /\ db[session.id].status = "completed")

\* The instants the clock takes, and those not before the present one.
Instants == {k * ClockStepMs : k \in 0..MaxClockSteps}
Later == {t2 \in Instants : t2 >= now}

\* The cancel handler cancels a session: its lock section returns Ok.
CancelStep == cmd.pc = "idle" /\ cmd'.pc = "cancel_clear"

\* The remaining time of a session that is not in overtime: the deadline minus
\* the present instant, not below zero, when Running; the snapshot when Paused.
RemainingNow ==
    IF timer.state = "Running"
    THEN IF timer.end_instant - now > 0 THEN timer.end_instant - now ELSE 0
    ELSE timer.remaining_ms

\* C11: a cancel of a Running or Paused session that is not in overtime returns
\* the whole seconds of planned milliseconds minus the remaining time, a value
\* within 0..planned that does not depend on how long the session has been
\* Paused; the timer becomes Idle; and the handler's write, when it succeeds,
\* marks the session's row cancelled with exactly that value.
C11_CancelElapsed ==
    [][/\ (CancelStep /\ ~timer.overtime) =>
              /\ cmd'.elapsed_seconds =
                     (timer.planned_duration_seconds * MsPerSecond - RemainingNow)
                         \div MsPerSecond
              /\ cmd'.elapsed_seconds \in 0..timer.planned_duration_seconds
              /\ timer.state = "Paused" =>
                     \A t2 \in Later : cancel(timer, t2).elapsed = cmd'.elapsed_seconds
              /\ timer'.state = "Idle"
              /\ cmd'.interval_id = timer.interval_id
              /\ cmd'.interval_id = session.id
              /\ cmd'.interval_id \in Inserted
       /\ (cmd.pc = "cancel_db" /\ cmd'.pc # "cancel_db") =>
              \/ db' = db
              \/ /\ db'[cmd.interval_id].status = "cancelled"
                 /\ db'[cmd.interval_id].duration_seconds = cmd.elapsed_seconds
                 /\ \A i \in RecordIds \ {cmd.interval_id} : db'[i] = db[i]
      ]_vars

\* C11 witness: the handler has cancelled a session outside overtime one whole
\* second into it and is about to write the row.
C11_Witness ==
    cmd.pc = "cancel_db" /\ ~cmd.was_overtime /\ cmd.elapsed_seconds = 1

\* C12: in every reachable Running state a pause stores the deadline minus the
\* present instant, not below zero, and clears the deadline; and a resume at
\* any later instant sets the deadline to that instant plus the stored value,
\* so that the remaining time right after the resume is the remaining time at
\* the pause.  In every reachable Paused state a resume does the same with the
\* stored snapshot.
C12_PauseResumeKeepsRemaining ==
    /\ timer.state = "Running" =>
          LET p == pause(timer, now).timer
              before == status(timer, now).remaining_ms
          IN /\ timer.end_instant # None =>
                    p.remaining_ms = IF timer.end_instant - now > 0
                                     THEN timer.end_instant - now ELSE 0
             /\ p.end_instant = None
             /\ p.remaining_ms = before
             /\ \A t2 \in Later :
                   LET r == resume(p, t2).timer
                   IN /\ r.end_instant = t2 + p.remaining_ms
                      /\ status(r, t2).remaining_ms = before
                      /\ status(r, t2).remaining_ms >= 0
    /\ timer.state = "Paused" =>
          LET r == resume(timer, now).timer
          IN /\ r.end_instant = now + timer.remaining_ms
             /\ status(r, now).remaining_ms = status(timer, now).remaining_ms
             /\ status(r, now).remaining_ms >= 0

\* C12 witness: a session paused half a second in has been resumed half a
\* second later, and half a second remains.
C12_Witness ==
    /\ cmd.pc = "resume_spawn"
    /\ timer.state = "Running"
    /\ ~timer.overtime
    /\ now = 2 * ClockStepMs
    /\ timer.end_instant = now + ClockStepMs
    /\ timer.remaining_ms = ClockStepMs

\* The start handler's lock section returns Ok.
StartStep == cmd.pc = "start_lock" /\ cmd'.pc = "start_spawn"

\* C13: a successful start, of any kind and positive duration, leaves the timer
\* Running with the deadline at the present instant plus the duration in
\* milliseconds, the planned duration and the kind as given, interval_id the
\* id of the row the handler has just inserted, and overtime false; and a
\* status read at that instant reports a remaining time above zero and at most
\* the duration in milliseconds.
C13_StartSetsSession ==
    [][/\ StartStep =>
              /\ cmd.duration_seconds > 0
              /\ timer'.state = "Running"
              /\ timer'.interval_type = cmd.interval_type
              /\ timer'.end_instant = now + cmd.duration_seconds * MsPerSecond
              /\ timer'.planned_duration_seconds = cmd.duration_seconds
              /\ timer'.interval_id = cmd.interval_id
              /\ cmd.interval_id = Cardinality(Inserted)
              /\ db[cmd.interval_id].status = "in_progress"
              /\ db[cmd.interval_id].interval_type = cmd.interval_type
              /\ db[cmd.interval_id].planned_duration_seconds = cmd.duration_seconds
              /\ ~timer'.overtime
              /\ status(timer', now).remaining_ms > 0
              /\ status(timer', now).remaining_ms <= cmd.duration_seconds * MsPerSecond
       /\ timer.state = "Idle" =>
              \A a \in StartArgs :
                 LET r == start(timer, a.interval_type, a.duration_seconds,
                                a.interval_id, now)
                 IN /\ r.ok
                    /\ r.timer.end_instant = now + a.duration_seconds * MsPerSecond
                    /\ r.timer.planned_duration_seconds = a.duration_seconds
                    /\ r.timer.interval_id = a.interval_id
                    /\ ~r.timer.overtime
                    /\ status(r.timer, now).remaining_ms > 0
                    /\ status(r.timer, now).remaining_ms
                           <= a.duration_seconds * MsPerSecond
      ]_vars

\* C13 witness: a second session has just been started, after the clock has
\* advanced, and its tick task is not spawned yet.
C13_Witness ==
    /\ cmd.pc = "start_spawn"
    /\ timer.state = "Running"
    /\ timer.interval_id = 2
    /\ now > 0
    /\ timer.end_instant = now + timer.planned_duration_seconds * MsPerSecond

\* C14: while the timer stays out of Idle, no step changes
\* break_overtime_enabled.
C14_OvertimeSettingFrozen ==
    [][(timer.state # "Idle" /\ timer'.state # "Idle") =>
           timer'.break_overtime_enabled = timer.break_overtime_enabled]_vars

\* C15: at most one tick task is alive.
C15_OneTickTask == NumAlive <= 1

\* The row id is finalized by this step as completed with the given duration,
\* or the write fails and the rows stay as they are.
Finalizes(id, duration_seconds) ==
    \/ db' = db
    \/ /\ id \in Inserted
       /\ db'[id].status = "completed"
       /\ db'[id].duration_seconds = duration_seconds
       /\ \A i \in RecordIds \ {id} : db'[i] = db[i]

\* C16: when a task that saw the deadline crossed for a Work interval, or for
\* a break without overtime, passes its guard, the timer becomes Idle with
\* interval_id absent and the row, kind and planned duration the task holds
\* are those of the session it completes; the task then finalizes that row as
\* completed with the planned duration, emits one timer-complete event with
\* overtime false carrying that row id and kind, and returns.
C16_NormalCompletion ==
    [][\A r \in Alive :
          /\ (r.pc = "norm_lock" /\ TaskMoved(r) /\ timer.state = "Running") =>
                 /\ timer'.state = "Idle"
                 /\ timer'.interval_id = None
                 /\ r.interval_id = timer.interval_id
                 /\ r.interval_type = timer.interval_type
                 /\ r.planned = timer.planned_duration_seconds
          /\ (r.pc = "norm_db" /\ TaskMoved(r)) =>
                 /\ Finalizes(r.interval_id, r.planned)
                 /\ events' = Append(events,
                                     CompleteEvent(r.interval_id, r.interval_type,
                                                   r.completed_work_count, FALSE))
                 /\ NumAlive' = NumAlive - 1
      ]_vars

\* C17: when a task that saw the deadline crossed for a break with overtime
\* enabled passes its guard, the work count is updated as complete() does, the
\* timer is Running again in overtime with overtime_start the present instant
\* and the interval kind it had, and no row is inserted; the task then
\* finalizes the session's row as completed with the planned duration, emits
\* one timer-complete event with overtime true and stays alive; and the tick
\* emitted in overtime carries remaining_ms 0 and the time since overtime_start.
C17_OvertimeEntry ==
    [][/\ \A r \in Alive :
          /\ (r.pc = "ot_lock" /\ TaskMoved(r) /\ timer.state = "Running") =>
                 /\ timer'.completed_work_count = work_count_after(timer)
                 /\ r.interval_id = timer.interval_id
                 /\ r.planned = timer.planned_duration_seconds
                 /\ db' = db
          /\ (r.pc = "ot_reenter" /\ TaskMoved(r)) =>
                 /\ timer'.state = "Running"
                 /\ timer'.overtime
                 /\ timer'.overtime_start = now
                 /\ timer'.interval_type = timer.interval_type
                 /\ is_break(timer'.interval_type)
                 /\ db' = db
          /\ (r.pc = "ot_db" /\ TaskMoved(r)) =>
                 /\ Finalizes(r.interval_id, r.planned)
                 /\ events' = Append(events,
                                     CompleteEvent(r.interval_id, r.interval_type,
                                                   r.completed_work_count, TRUE))
                 /\ NumAlive' = NumAlive
       /\ (timer.state = "Running" /\ timer.overtime) =>
              overtime_tick(timer, now) =
                  TimerTickPayload(0, timer.interval_type, now - timer.overtime_start)
      ]_vars

\* C18: when the write of a tick task's db_complete_interval fails, the step
\* leaves the timer and the lock as they are, the timer-complete event is
\* emitted all the same, the task returns (normal completion) or goes back to
\* the head of its loop (overtime entry), and a timer left Idle accepts a start;
\* the timer was completed, and the count the event carries taken, before the
\* write.
C18_FailedWriteIgnored ==
    [][\A r \in Alive :
          /\ (r.pc = "norm_db" /\ TaskMoved(r) /\ db' = db) =>
                 /\ timer' = timer
                 /\ lock' = lock
                 /\ events' = Append(events,
                                     CompleteEvent(r.interval_id, r.interval_type,
                                                   r.completed_work_count, FALSE))
                 /\ NumAlive' = NumAlive - 1
                 /\ timer'.state = "Idle" =>
                        \A a \in StartArgs :
                            start(timer', a.interval_type, a.duration_seconds,
                                  a.interval_id, now).ok
          /\ (r.pc = "ot_db" /\ TaskMoved(r) /\ db' = db) =>
                 /\ timer' = timer
                 /\ lock' = lock
                 /\ events' = Append(events,
                                     CompleteEvent(r.interval_id, r.interval_type,
                                                   r.completed_work_count, TRUE))
                 /\ NumAlive' = NumAlive
                 /\ CopiesIn(FreshTask, tasks') = CopiesIn(FreshTask, tasks) + 1
      ]_vars

\* C18 witness: the timer-complete event of row 1 was emitted although the
\* write failed and left the row in_progress, and a second session has been
\* started since.
C18_Witness ==
    /\ \E i \in 1..Len(events) :
          /\ events[i].interval_id = 1
          /\ ~events[i].overtime
    /\ db[1].status = "in_progress"
    /\ timer.state = "Running"
    /\ timer.interval_id = 2

\* The stages of start_timer after its duration check.
StartStages == {"start_read", "start_insert", "start_lock", "start_spawn"}

\* C19: a start_timer invoked with duration 0 returns at once: neither its
\* invocation nor its return changes the timer, the rows, the tick tasks or
\* the events; and no later stage of the handler ever runs with duration 0,
\* no row is ever planned with it and no session ever started with it.
C19_ZeroDurationRejected ==
    [][/\ (cmd'.pc = "start_zero" \/ cmd.pc = "start_zero") =>
              /\ cmd # cmd' => (\/ cmd.pc = "idle" /\ cmd'.pc = "start_zero"
                                \/ cmd.pc = "start_zero" /\ cmd' = CmdIdle)
              /\ cmd # cmd' => UNCHANGED <<timer, lock, db, tasks, events>>
       /\ cmd'.pc \in StartStages => cmd'.duration_seconds > 0
       /\ \A i \in RecordIds :
             db'[i].status # "none" => db'[i].planned_duration_seconds > 0
       /\ timer'.state # "Idle" => timer'.planned_duration_seconds > 0
      ]_vars

\* C19 witness: start_timer has been invoked with duration 0 while a session
\* is Running, and is at its early return.
C19_Witness == cmd.pc = "start_zero" /\ timer.state = "Running"

\* C20: when db_insert_interval fails, start_timer returns: the handler is
\* idle again, and the timer, the lock, the rows, the tick tasks and the
\* events are as they were.
C20_FailedInsertReturns ==
    [][(cmd.pc = "start_insert" /\ cmd'.pc # "start_insert" /\ db' = db) =>
           /\ cmd' = CmdIdle
           /\ UNCHANGED <<timer, lock, tasks, events>>
      ]_vars

\* C20 witness: start_timer, invoked while Idle, has read a setting that
\* differs from the timer's and has reached db_insert_interval.
C20_Witness ==
    /\ cmd.pc = "start_insert"
    /\ timer.state = "Idle"
    /\ cmd.break_overtime_enabled # timer.break_overtime_enabled
    /\ NumAlive = 0

\* The positions at which a command or a tick task is in a persistence call.
CmdDbStages == {"start_read", "start_insert", "cancel_db"}
TaskDbStages == {"ot_db", "norm_db"}

\* C21: the lock is held only by the cancel handler between cancel() and its
\* release, or by one tick task between complete() and enter_overtime: never by
\* a command that is reading the setting, inserting or writing a row, and
\* never by a task that is at its finalize write; so with a write in flight
\* and no such section open the lock is free.
C21_NoLockAcrossDb ==
    /\ lock = CmdHolder => cmd.pc = "cancel_clear"
    /\ lock = TaskHolder =>
          /\ \E r \in Alive : r.pc = "ot_reenter"
          /\ \A r \in Alive : r.pc = "ot_reenter" => CopiesIn(r, tasks) = 1
    /\ cmd.pc \in CmdDbStages => lock # CmdHolder
    /\ ( /\ cmd.pc \in CmdDbStages \/ \E r \in Alive : r.pc \in TaskDbStages
         /\ cmd.pc # "cancel_clear"
         /\ \A r \in Alive : r.pc # "ot_reenter" )
       => lock = NoHolder

\* C21 witness: a tick task is at its finalize write with the session Running
\* and the handler idle, and the lock is free for a pause, cancel or status.
C21_Witness ==
    /\ \E r \in Alive : r.pc \in TaskDbStages
    /\ cmd.pc = "idle"
    /\ timer.state = "Running"
    /\ lock = NoHolder

\* C23: in every reachable state status() reports the fields as they are, with
\* remaining_ms 0 when Idle or in overtime, the deadline minus the present
\* instant, not below zero, when Running without overtime, the snapshot when
\* Paused without overtime, and overtime_ms the time since overtime_start when
\* overtime is set and 0 otherwise; the status command changes nothing.
C23_StatusReports ==
    LET st == status(timer, now)
    IN /\ st.state = timer.state
       /\ st.interval_type = timer.interval_type
       /\ st.planned_duration_seconds = timer.planned_duration_seconds
       /\ st.interval_id = timer.interval_id
       /\ st.completed_work_count = timer.completed_work_count
       /\ st.overtime = timer.overtime
       /\ (timer.state = "Idle" \/ timer.overtime) => st.remaining_ms = 0
       /\ (timer.state = "Running" /\ ~timer.overtime) =>
              /\ timer.end_instant # None
              /\ st.remaining_ms = IF timer.end_instant - now > 0
                                   THEN timer.end_instant - now ELSE 0
       /\ (timer.state = "Paused" /\ ~timer.overtime) =>
              st.remaining_ms = timer.remaining_ms
       /\ timer.overtime => st.overtime_ms = now - timer.overtime_start
       /\ ~timer.overtime => st.overtime_ms = 0
       /\ st.overtime_ms >= 0
       /\ (cmd.pc = "idle" /\ lock = NoHolder) => ENABLED StatusCmd

\* C23 witness: a session in overtime, some time after overtime began.
C23_Witness ==
    /\ timer.overtime
    /\ timer.overtime_start # None
    /\ now > timer.overtime_start
    /\ cmd.pc = "idle"
    /\ lock = NoHolder

\* C24: whenever the timer is Idle and the cancel handler is not inside its
\* lock section, interval_id is absent.
C24_IdleHasNoInterval ==
    (timer.state = "Idle" /\ lock # CmdHolder) => timer.interval_id = None

\* C24 witness: a cancel outside overtime has released the lock and left the
\* timer Idle.
C24_Witness ==
    /\ cmd.pc = "cancel_db"
    /\ timer.state = "Idle"
    /\ lock = NoHolder

\* C25: overtime_start is present exactly when overtime is true, and overtime
\* is false whenever the timer is Idle.
C25_OvertimeStartIffOvertime ==
    /\ timer.overtime <=> timer.overtime_start # None
    /\ timer.state = "Idle" => ~timer.overtime

\* C25 witness: a session that was in overtime has been cancelled.
C25_Witness ==
    /\ timer.state = "Idle"
    /\ cmd.pc = "cancel_clear"
    /\ cmd.was_overtime

\* C26: whenever overtime is true the interval kind of the timer and of the
\* session begun by the latest start is a break, and break_overtime_enabled is
\* true.
C26_OvertimeOnlyForEnabledBreak ==
    timer.overtime =>
        /\ is_break(timer.interval_type)
        /\ is_break(session.interval_type)
        /\ timer.break_overtime_enabled

\* A pause has succeeded and no resume or cancel has followed, or a cancel has
\* succeeded and its handler has not returned yet.
Stopped ==
    \/ timer.state = "Paused"
    \/ timer.state = "Idle" /\ cmd.pc \in {"cancel_clear", "cancel_db"}

\* A step of a tick task or of the clock: the command handler stays put.
NotCmdStep == cmd' = cmd

\* C29: after a successful pause or cancel, and before any further command, a
\* step of a tick task changes no field of the timer, emits no timer-complete
\* event and writes no row; and a task that polls the timer returns, so that
\* it emits at most the one tick it was about to emit.
C29_BoundedStaleness ==
    [][(Stopped /\ NotCmdStep) =>
           /\ timer' = timer
           /\ events' = events
           /\ db' = db
           /\ \A r \in Alive :
                 (r.pc = "sample" /\ TaskMoved(r)) => NumAlive' = NumAlive - 1
      ]_vars

\* C30: while the timer is Paused it stays Paused, with remaining_ms and the
\* work count as they are, no timer-complete event emitted and no row written
\* as completed, until a resume or a cancel command succeeds.
C30_PausedIsFrozen ==
    [][timer.state = "Paused" =>
           /\ timer'.state = "Paused" =>
                 /\ timer'.remaining_ms = timer.remaining_ms
                 /\ timer'.completed_work_count = timer.completed_work_count
                 /\ events' = events
                 /\ \A i \in RecordIds : db'[i].writes = db[i].writes
           /\ timer'.state # "Paused" =>
                 /\ cmd.pc = "idle"
                 /\ cmd'.pc \in {"resume_spawn", "cancel_clear"}
      ]_vars

\* C22: a timer-tick event emitted outside overtime carries a remaining_ms not
\* above that of the tick emitted before it since the last pause, resume,
\* cancel, completion or start.
C22_TicksNonIncreasing ==
    [][\A r \in Alive :
          (/\ r.pc = "check"
           /\ TaskMoved(r)
           /\ now < r.end
           /\ session.last_tick # None) =>
              r.end - now <= session.last_tick
      ]_vars

\* The last instant the clock takes.
LastInstant == MaxClockSteps * ClockStepMs

\* A timer-complete event carrying row id has been emitted.
CompleteEmitted(id) == \E i \in 1..Len(events) : events[i].interval_id = id

\* C27: under FairSpec, a session that is Running outside overtime, with its
\* deadline within the instants the clock takes, leads to a timer-complete event
\* carrying its row, unless it is paused or cancelled.
C27_RunningLeadsToComplete ==
    \A id \in RecordIds :
        (/\ timer.state = "Running"
         /\ ~timer.overtime
         /\ timer.interval_id = id
         /\ timer.end_instant <= LastInstant)
        ~> (\/ CompleteEmitted(id)
            \/ timer.state = "Paused"
            \/ cmd.pc \in {"cancel_clear", "cancel_db"})

\* C28: under FairSpec, a timer that is Paused or Idle, outside the lock
\* section of an overtime entry, leads to no tick task being alive, unless a
\* start or a resume makes it Running again.
C28_TasksTerminate ==
    (timer.state # "Running" /\ lock # TaskHolder)
        ~> (NumAlive = 0 \/ timer.state = "Running")

\* C28 witness: the timer is Paused and the tick task of the session has
\* returned.
C28_Witness == timer.state = "Paused" /\ NumAlive = 0

\* No two timer-complete events of the sequence carry the same row.
OneEventPerRow(es) ==
    \A i \in 1..Len(es) : \A j \in 1..Len(es) :
        es[i].interval_id = es[j].interval_id => i = j

\* C31: no two timer-complete events carry the same row; a task that passes
\* its guard holds the row and the kind of the session it completes; and the
\* event it then emits carries that row and kind and the work count the timer
\* held right after complete().
C31_CompleteEventsMatchSession ==
    [][/\ OneEventPerRow(events')
       /\ \A r \in Alive :
             (r.pc \in {"norm_lock", "ot_lock"} /\ TaskMoved(r)
                 /\ timer.state = "Running") =>
                /\ r.interval_id = timer.interval_id
                /\ r.interval_type = timer.interval_type
                /\ \E r2 \in BagToSet(tasks') :
                      /\ r2.pc \in {"norm_db", "ot_reenter"}
                      /\ r2.interval_id = r.interval_id
                      /\ r2.completed_work_count = timer'.completed_work_count
       /\ events' # events =>
             \E r \in Alive :
                /\ r.pc \in TaskDbStages
                /\ TaskMoved(r)
                /\ events' = Append(events,
                                    CompleteEvent(r.interval_id, r.interval_type,
                                                  r.completed_work_count,
                                                  r.pc = "ot_db"))
      ]_vars

\* The rows still in_progress.
InProgress == {i \in RecordIds : db[i].status = "in_progress"}

\* C32: with every finalize write succeeding, whenever the timer is Idle, no
\* command is being executed and no tick task is alive, no row is in_progress.
C32_NoRowLeftInProgress ==
    (timer.state = "Idle" /\ cmd.pc = "idle" /\ NumAlive = 0) => InProgress = {}

\* The start handler's lock section returns Err (timer already running).
StartRejectedStep == cmd.pc = "start_lock" /\ cmd'.pc = "idle"

\* C33: when the start handler's lock section rejects the start, no row exists
\* for that call, so that rows are created by successful starts only; and at
\* most one row is in_progress at any time.
C33_RejectedStartCreatesNoRow ==
    [][/\ StartRejectedStep => db'[cmd.interval_id] = NoRow
       /\ Cardinality({i \in RecordIds : db'[i].status = "in_progress"}) <= 1
      ]_vars

\* C34: while the timer is in overtime no tick task passes the guard of its
\* second lock section; a step that is not a command's leaves the overtime
\* flag set and completed_work_count and overtime_start as they were; a
\* timer-complete event emitted then is the first one carrying its row; and a
\* row written by a tick task then had not been written before.
C34_NoSecondCompletion ==
    [][timer.overtime =>
          /\ ~CompletionStep
          /\ NotCmdStep =>
                 /\ timer'.overtime
                 /\ timer'.completed_work_count = timer.completed_work_count
                 /\ timer'.overtime_start = timer.overtime_start
          /\ events' # events =>
                 ~CompleteEmitted(events'[Len(events')].interval_id)
          /\ (NotCmdStep /\ db' # db) =>
                 \A id \in RecordIds : db'[id] # db[id] => db[id].writes = <<>>
      ]_vars

\* cancel_timer's call of db_cancel_interval returns, with or without the write.
CancelDbStep == cmd.pc = "cancel_db" /\ cmd'.pc = "idle"

\* C35: when cancel_timer comes to its write the timer is already Idle with
\* interval_id, the deadline and overtime cleared and the lock released; the
\* write, failed or not, leaves every field of the timer as it is, so that a
\* failed cancel write leaves the timer as a successful one does; and a start
\* of any kind and positive duration is accepted by the timer afterwards.
C35_FailedCancelWriteKeepsReset ==
    [][CancelDbStep =>
          /\ timer.state = "Idle"
          /\ timer.interval_id = None
          /\ timer.end_instant = None
          /\ ~timer.overtime
          /\ lock # CmdHolder
          /\ timer' = timer
          /\ \A a \in StartArgs :
                start(timer', a.interval_type, a.duration_seconds,
                      a.interval_id, now').ok
      ]_vars

\* C35 witness: the latest session was cancelled before any completion and its
\* row is still in_progress, the write of the cancel having failed; the timer
\* is Idle without interval_id and the handler has returned.
C35_Witness ==
    /\ cmd.pc = "idle"
    /\ timer.state = "Idle"
    /\ timer.interval_id = None
    /\ session.id \in RecordIds
    /\ ~session.completed
    /\ db[session.id].status = "in_progress"

\* The timer is Running in overtime after a resume: TimerInner::resume is the
\* only assignment of a deadline to a timer whose overtime flag is set.
ResumedInOvertime ==
    timer.state = "Running" /\ timer.overtime /\ timer.end_instant # None

\* C36: pause is accepted when Running in overtime and resume when Paused in
\* overtime, and both leave overtime and overtime_start as they were; while
\* Paused in overtime the status reports remaining_ms 0 and overtime_ms the
\* time since overtime_start; a tick task polling a timer that is Running in
\* overtime emits the overtime tick and stays in its loop; and a session
\* resumed in overtime is not completed again by a tick task.
C36_PauseResumeInOvertime ==
    [][/\ (timer.state = "Running" /\ timer.overtime) =>
              /\ pause(timer, now).ok
              /\ pause(timer, now).timer.overtime
              /\ pause(timer, now).timer.overtime_start = timer.overtime_start
              /\ overtime_tick(timer, now) =
                     TimerTickPayload(0, timer.interval_type, now - timer.overtime_start)
              /\ \A r \in Alive : r.pc = "sample" => ~TaskMoved(r)
       /\ (timer.state = "Paused" /\ timer.overtime) =>
              /\ resume(timer, now).ok
              /\ resume(timer, now).timer.overtime
              /\ resume(timer, now).timer.overtime_start = timer.overtime_start
              /\ status(timer, now).remaining_ms = 0
              /\ status(timer, now).overtime_ms = now - timer.overtime_start
       /\ ResumedInOvertime => ~CompletionStep
      ]_vars

\* The stages at which a tick task takes the timer's lock.
TaskLockStages == {"sample", "norm_lock", "ot_lock"}

\* C37: a handler or a tick task is inside a lock section exactly while it
\* holds the lock (cancel between TimerInner::cancel and the clearing of
\* interval_id, the overtime entry between complete() and the re-entry); while
\* the lock is held only its holder changes the timer, no tick task enters a
\* lock section and the start handler waiting for the lock does not go on; a
\* step changes the timer only from a free lock or as the holder's next step;
\* and with the lock free a timer that is Idle has no interval_id, no deadline
\* and no overtime.
C37_LockLinearizes ==
    [][/\ cmd.pc = "cancel_clear" <=> lock = CmdHolder
       /\ (\E r \in Alive : r.pc = "ot_reenter") <=> lock = TaskHolder
       /\ (lock = NoHolder /\ timer.state = "Idle") =>
              /\ timer.interval_id = None
              /\ timer.end_instant = None
              /\ ~timer.overtime
              /\ timer.overtime_start = None
       /\ lock # NoHolder =>
              /\ \A r \in Alive : r.pc \in TaskLockStages => ~TaskMoved(r)
              /\ cmd.pc = "start_lock" => cmd' = cmd
              /\ lock' \in {lock, NoHolder}
              /\ timer' # timer =>
                     \/ lock = CmdHolder /\ cmd'.pc # "cancel_clear"
                     \/ /\ lock = TaskHolder
                        /\ \E r \in Alive : r.pc = "ot_reenter" /\ TaskMoved(r)
      ]_vars

\* C37 witness: a tick task holds the lock between complete() and the re-entry
\* into overtime, the timer being Idle meanwhile, and a start handler that has
\* inserted its row waits for the lock.
C37_Witness ==
    /\ lock = TaskHolder
    /\ \E r \in Alive : r.pc = "ot_reenter"
    /\ timer.state = "Idle"
    /\ cmd.pc = "start_lock"

====
